---- MODULE Spec2Model ----
(***************************************************************************)
(* Student attendance bookkeeping (src/app.py): the Student record, the    *)
(* in-memory AttendanceManager with its CSV persistence, the relational    *)
(* AttendanceDB, and the flat-file menu loop main().                       *)
(*                                                                         *)
(* Python strings are sequences of one-character strings, so that the CSV  *)
(* writer and reader can be modelled character by character.  A Python     *)
(* dict is a sequence of <<key, value>> pairs with distinct keys, in       *)
(* insertion order.  Floats are exact rationals [num, den].                *)
(***************************************************************************)
EXTENDS Integers, Sequences, FiniteSets, TLC

\* ---------------------------------------------------------------- bounds
NumDates == 2
MaxCalls == 5
MaxLoadCalls == 2
MaxDbCalls == 3
MaxRows == 3
MaxFake == 1
MaxMainCalls == 6

\* ------------------------------------------------------------ characters
COMMA == ","
QUOTE == "\""
CR == "\r"
LF == "\n"

Digits == <<"0", "1", "2", "3", "4", "5", "6", "7", "8", "9">>
DigitChars == {Digits[i] : i \in 1..10}
UpperChars == {"A", "B", "N", "O", "P", "X", "Y"}
LowerChars == {"a", "b", "d", "e", "l", "n", "o", "p", "r", "s", "u", "w", "x", "y"}

None == <<"<None>">>
TrueStr == <<"T", "r", "u", "e">>
FalseStr == <<"F", "a", "l", "s", "e">>

\* Decimal text of a natural number (Python's str(int) / "%d").
RECURSIVE IntToStr(_)
IntToStr(n) ==
  IF n < 10 THEN <<Digits[n + 1]>>
  ELSE IntToStr(n \div 10) \o <<Digits[(n % 10) + 1]>>

\* str(x) of a bool, as csv.writer applies it to a non-string field.
BoolToStr(b) == IF b THEN TrueStr ELSE FalseStr

\* ---------------------------------------------------------------- inputs
\* Student ids, names and dates the callers pass.  The API takes any string;
\* the pools hold plain strings and strings with the characters the CSV
\* format treats specially.
Id1001 == <<"1", "0", "0", "1">>
IdCR == <<"X", CR, "7">>
NameAnn == <<"A", "n", "n">>
NameOBrien == <<"O", COMMA, "B">>
NameBob == <<"B", "o", "b">>
DateStr(i) == <<"d">> \o IntToStr(i)

\* is_valid_id / is_valid_name
MinIdLen == 4
MaxIdLen == 10
MinNameLen == 2

StudentIdPool == {Id1001, IdCR}
NamePool == {NameAnn, NameOBrien}
DatePool == {DateStr(i) : i \in 1..NumDates}

\* Answers typed at the prompts of the relational mode.
UsernameInputs == {<<"a", "d">>, <<"b", "o">>}
PasswordInputs == {<<"p", "w">>, <<"P", "w">>, <<"p", "w", " ">>}
DbIdInputs == {Id1001, <<"A", "B", "1", "2", " ">>, <<"A", "7">>}
DbNameInputs == {NameAnn, NameBob, NameOBrien}
StatusInputs == {<<>>, <<"y">>, <<"n">>, <<"N">>, <<"n", " ">>}

\* Answers typed at the prompts of main().
ChoiceInputs == {<<Digits[i + 1]>> : i \in 1..9} \cup {<<"x">>, <<" ", "1">>}
MainIdInputs == {Id1001, <<" ", "A", "7">>, <<>>}
MainNameInputs == {NameAnn, <<" ">>}
FilenameInputs == {<<>>, <<" ">>}
CountInputs == {IntToStr(n) : n \in 0..MaxFake} \cup {<<"x">>, <<"-", "1">>}

\* generate_fake_students
FakeDays == 5
FakeIdPool == {Id1001, <<"0", "0", "0", "7">>}
FakeNamePool == {<<"A", "B", "N", "O", "X">>}

\* str.lower() on the letters the answers use.
LowerOf(c) ==
  CASE c = "A" -> "a" [] c = "B" -> "b" [] c = "N" -> "n" [] c = "O" -> "o"
    [] c = "X" -> "x" [] c = "Y" -> "y" [] OTHER -> c
Lower(s) == [i \in 1..Len(s) |-> LowerOf(s[i])]

\* ----------------------------------------------------------------- dicts
DictKeys(d) == {d[i][1] : i \in 1..Len(d)}
DictHas(d, k) == \E i \in 1..Len(d) : d[i][1] = k
DictIndex(d, k) == CHOOSE i \in 1..Len(d) : d[i][1] = k
DictGet(d, k) == d[DictIndex(d, k)][2]
\* d[k] = v: the entry is replaced in place, or appended when k is new.
DictSet(d, k, v) ==
  IF DictHas(d, k) THEN [d EXCEPT ![DictIndex(d, k)] = <<k, v>>]
  ELSE Append(d, <<k, v>>)
DictValues(d) == [i \in 1..Len(d) |-> d[i][2]]

RECURSIVE CountTrue(_)
CountTrue(vals) ==
  IF vals = <<>> THEN 0
  ELSE (IF Head(vals) THEN 1 ELSE 0) + CountTrue(Tail(vals))

\* --------------------------------------------------------------- Student
Student(student_id, name) ==
  [student_id |-> student_id, name |-> name, attendance |-> <<>>]

Student_mark_attendance(st, date, present, today) ==
  LET d == IF date = None THEN today ELSE date
  IN [st EXCEPT !.attendance = DictSet(st.attendance, d, present)]

\* As get_attendance_percentage, with the guard off by one.
Student_get_attendance_percentage_off_by_one(st) ==
  LET total == Len(st.attendance)
      present_days == CountTrue(DictValues(st.attendance))
  IN IF total > 1 THEN [num |-> present_days * 100, den |-> total]
     ELSE [num |-> 0, den |-> 1]

\* (present_days / total) * 100, or 0 when nothing is recorded.
Student_get_attendance_percentage(st) ==
  LET total == Len(st.attendance)
      present_days == CountTrue(DictValues(st.attendance))
  IN IF total > 0 THEN [num |-> present_days * 100, den |-> total]
     ELSE [num |-> 0, den |-> 1]

\* f"{x:.2f}%" of a non-negative rational: rounded to hundredths (ties to
\* even), then integer part, ".", two digits, "%".
Format2fPercent(q) ==
  LET scaled == q.num * 100
      fl == scaled \div q.den
      twice == 2 * (scaled % q.den)
      h == IF twice > q.den \/ (twice = q.den /\ fl % 2 = 1) THEN fl + 1 ELSE fl
      frac == h % 100
  IN IntToStr(h \div 100) \o <<".">>
     \o <<Digits[(frac \div 10) + 1], Digits[(frac % 10) + 1]>> \o <<"%">>

\* ------------------------------------------------------------ csv.writer
\* Default dialect: delimiter ",", quotechar '"', doublequote, QUOTE_MINIMAL,
\* lineterminator "\r\n".  A field is quoted when it holds the delimiter,
\* the quote character or a character of the line terminator.
CsvSpecial(c) == c \in {COMMA, QUOTE, CR, LF}

RECURSIVE CsvDoubleQuotes(_)
CsvDoubleQuotes(s) ==
  IF s = <<>> THEN <<>>
  ELSE (IF Head(s) = QUOTE THEN <<QUOTE, QUOTE>> ELSE <<Head(s)>>)
       \o CsvDoubleQuotes(Tail(s))

CsvWriteField(s, only) ==
  IF (\E i \in 1..Len(s) : CsvSpecial(s[i])) \/ (only /\ s = <<>>)
  THEN <<QUOTE>> \o CsvDoubleQuotes(s) \o <<QUOTE>>
  ELSE s

RECURSIVE CsvJoin(_, _)
CsvJoin(row, only) ==
  IF row = <<>> THEN <<>>
  ELSE IF Len(row) = 1 THEN CsvWriteField(row[1], only)
  ELSE CsvWriteField(Head(row), FALSE) \o <<COMMA>> \o CsvJoin(Tail(row), FALSE)

CsvWriteRow(row) == CsvJoin(row, Len(row) = 1) \o <<CR, LF>>

\* ------------------------------------------------------- text-mode read
\* open(filename, 'r') reads with universal newlines: "\r\n" and a lone
\* "\r" both arrive as "\n".
RECURSIVE UniversalNewlines(_)
UniversalNewlines(t) ==
  IF t = <<>> THEN <<>>
  ELSE IF Head(t) = CR
       THEN IF Len(t) >= 2 /\ t[2] = LF
            THEN <<LF>> \o UniversalNewlines(Tail(Tail(t)))
            ELSE <<LF>> \o UniversalNewlines(Tail(t))
  ELSE <<Head(t)>> \o UniversalNewlines(Tail(t))

TextModeRead(t) == UniversalNewlines(t)

\* ------------------------------------------------------------ csv.reader
\* The reader is fed the file line by line; after the characters of each
\* line it is fed an end-of-line event.  Text-mode lines end at "\n" (no
\* "\r" is left after the newline translation).
EOL == "<EOL>"

RECURSIVE LineEvents(_)
LineEvents(t) ==
  IF t = <<>> THEN <<>>
  ELSE IF Head(t) = LF THEN <<LF, EOL>> \o LineEvents(Tail(t))
  ELSE IF Len(t) = 1 THEN <<Head(t), EOL>>
  ELSE <<Head(t)>> \o LineEvents(Tail(t))

\* One step of the reader's state machine (parse_process_char).  p holds the
\* state, the field being read, the fields of the row being read, the rows
\* completed and whether csv.Error was raised.
CsvSaveField(p, next) ==
  [p EXCEPT !.state = next, !.field = <<>>, !.fields = Append(p.fields, p.field)]

CsvEnd(c) == IF c = EOL THEN "START_RECORD" ELSE "EAT_CRNL"

CsvStartField(p, c) ==
  IF c \in {LF, CR, EOL} THEN CsvSaveField(p, CsvEnd(c))
  ELSE IF c = QUOTE THEN [p EXCEPT !.state = "IN_QUOTED_FIELD"]
  ELSE IF c = COMMA THEN CsvSaveField(p, "START_FIELD")
  ELSE [p EXCEPT !.state = "IN_FIELD", !.field = Append(p.field, c)]

CsvProcessChar(p, c) ==
  CASE p.state = "START_RECORD" ->
         IF c = EOL THEN p
         ELSE IF c \in {LF, CR} THEN [p EXCEPT !.state = "EAT_CRNL"]
         ELSE CsvStartField(p, c)
    [] p.state = "START_FIELD" -> CsvStartField(p, c)
    [] p.state = "IN_FIELD" ->
         IF c \in {LF, CR, EOL} THEN CsvSaveField(p, CsvEnd(c))
         ELSE IF c = COMMA THEN CsvSaveField(p, "START_FIELD")
         ELSE [p EXCEPT !.field = Append(p.field, c)]
    [] p.state = "IN_QUOTED_FIELD" ->
         IF c = EOL THEN p
         ELSE IF c = QUOTE THEN [p EXCEPT !.state = "QUOTE_IN_QUOTED_FIELD"]
         ELSE [p EXCEPT !.field = Append(p.field, c)]
    [] p.state = "QUOTE_IN_QUOTED_FIELD" ->
         IF c = QUOTE
         THEN [p EXCEPT !.state = "IN_QUOTED_FIELD", !.field = Append(p.field, c)]
         ELSE IF c = COMMA THEN CsvSaveField(p, "START_FIELD")
         ELSE IF c \in {LF, CR, EOL} THEN CsvSaveField(p, CsvEnd(c))
         ELSE [p EXCEPT !.state = "IN_FIELD", !.field = Append(p.field, c)]
    [] p.state = "EAT_CRNL" ->
         IF c \in {LF, CR} THEN p
         ELSE IF c = EOL THEN [p EXCEPT !.state = "START_RECORD"]
         ELSE [p EXCEPT !.error = TRUE]

\* A row is yielded when the end of a line leaves the reader at START_RECORD.
CsvYield(p) == [p EXCEPT !.rows = Append(p.rows, p.fields), !.fields = <<>>]

RECURSIVE CsvRun(_, _)
CsvRun(p, events) ==
  IF p.error THEN p
  ELSE IF events = <<>>
  THEN IF p.field # <<>> \/ p.state = "IN_QUOTED_FIELD"
       THEN CsvYield(CsvSaveField(p, p.state))
       ELSE p
  ELSE LET q == CsvProcessChar(p, Head(events))
       IN IF Head(events) = EOL /\ q.state = "START_RECORD" /\ ~q.error
          THEN CsvRun(CsvYield(q), Tail(events))
          ELSE CsvRun(q, Tail(events))

CsvReader(text) ==
  CsvRun([state |-> "START_RECORD", field |-> <<>>, fields |-> <<>>,
          rows |-> <<>>, error |-> FALSE],
         LineEvents(text))

\* ----------------------------------------------------- AttendanceManager
\* Each method is an operator from the roster (self.students) and the
\* arguments to the new roster and the returned value.
\* As add_student, without the membership test.
AttendanceManager_add_student_overwrite(ss, student_id, name) ==
  [students |-> DictSet(ss, student_id, Student(student_id, name)),
   ret |-> ~DictHas(ss, student_id)]

AttendanceManager_add_student(ss, student_id, name) ==
  IF DictHas(ss, student_id)
  THEN [students |-> ss, ret |-> FALSE]
  ELSE [students |-> DictSet(ss, student_id, Student(student_id, name)),
        ret |-> TRUE]

\* As mark_attendance, creating the student that is missing.
AttendanceManager_mark_attendance_create(ss, student_id, present, date, today) ==
  LET ss1 == IF DictHas(ss, student_id) THEN ss
             ELSE DictSet(ss, student_id, Student(student_id, student_id))
  IN [students |->
        DictSet(ss1, student_id,
                Student_mark_attendance(DictGet(ss1, student_id), date, present, today)),
      ret |-> DictHas(ss, student_id)]

AttendanceManager_mark_attendance(ss, student_id, present, date, today) ==
  IF ~DictHas(ss, student_id)
  THEN [students |-> ss, ret |-> FALSE]
  ELSE [students |->
          DictSet(ss, student_id,
                  Student_mark_attendance(DictGet(ss, student_id), date, present, today)),
        ret |-> TRUE]

\* enhanced_summary, which replaces AttendanceManager.summary_report: the
\* rows handed to print_table.
SummaryRow(st) ==
  LET total_days == Len(st.attendance)
      present_days == CountTrue(DictValues(st.attendance))
      percentage ==
        IF total_days # 0
        THEN Format2fPercent([num |-> present_days * 100, den |-> total_days])
        ELSE <<"0", ".", "0", "0", "%">>
  IN [student_id |-> st.student_id, name |-> st.name,
      present_days |-> present_days, total_days |-> total_days,
      percentage |-> percentage]

enhanced_summary(ss) == [i \in 1..Len(ss) |-> SummaryRow(ss[i][2])]

\* save_to_csv: one row per (student, date), in iteration order.
RECURSIVE StudentRows(_, _, _)
StudentRows(student_id, name, att) ==
  IF att = <<>> THEN <<>>
  ELSE CsvWriteRow(<<student_id, name, Head(att)[1], BoolToStr(Head(att)[2])>>)
       \o StudentRows(student_id, name, Tail(att))

RECURSIVE save_to_csv(_)
save_to_csv(ss) ==
  IF ss = <<>> THEN <<>>
  ELSE StudentRows(Head(ss)[1], Head(ss)[2].name, Head(ss)[2].attendance)
       \o save_to_csv(Tail(ss))

\* As the loop body, skipping only the rows that are too short.
LoadRow_at_least_four(ss, row) ==
  IF Len(row) < 4 THEN ss
  ELSE LET student_id == row[1]
           ss1 == IF ~DictHas(ss, student_id)
                  THEN DictSet(ss, student_id, Student(student_id, row[2]))
                  ELSE ss
       IN DictSet(ss1, student_id,
                  Student_mark_attendance(DictGet(ss1, student_id), row[3],
                                          row[4] = TrueStr, None))

\* The body of load_from_csv's loop for one row of the reader.
LoadRow(ss, row) ==
  IF Len(row) # 4 THEN ss
  ELSE LET student_id == row[1]
           name == row[2]
           date == row[3]
           present == (row[4] = TrueStr)
           ss1 == IF ~DictHas(ss, student_id)
                  THEN DictSet(ss, student_id, Student(student_id, name))
                  ELSE ss
       IN DictSet(ss1, student_id,
                  Student_mark_attendance(DictGet(ss1, student_id), date, present, None))

RECURSIVE LoadRows(_, _)
LoadRows(ss, rows) ==
  IF rows = <<>> THEN ss ELSE LoadRows(LoadRow(ss, Head(rows)), Tail(rows))

\* load_from_csv on an existing file: the rows the reader yields are applied
\* one by one (a csv.Error ends the loop, leaving the rows already applied).
load_from_csv(ss, content) == LoadRows(ss, CsvReader(TextModeRead(content)).rows)


\* ------------------------------------------------------------ validation
IsAlpha(c) == c \in UpperChars \cup LowerChars
IsAlnum(c) == IsAlpha(c) \/ c \in DigitChars
Whitespace == {" ", "\t", LF, CR}

\* str.strip()
RECURSIVE LStrip(_)
LStrip(s) ==
  IF s # <<>> /\ Head(s) \in Whitespace THEN LStrip(Tail(s)) ELSE s

RECURSIVE RStrip(_)
RStrip(s) ==
  IF s # <<>> /\ s[Len(s)] \in Whitespace
  THEN RStrip(SubSeq(s, 1, Len(s) - 1))
  ELSE s

Strip(s) == RStrip(LStrip(s))

\* str.isalnum() / str.isalpha(): non-empty and every character in the class.
is_valid_id(student_id) ==
  /\ student_id # <<>>
  /\ \A i \in 1..Len(student_id) : IsAlnum(student_id[i])
  /\ MinIdLen <= Len(student_id)
  /\ Len(student_id) <= MaxIdLen

is_valid_name(name) ==
  LET letters == SelectSeq(name, LAMBDA c : c # " ")
  IN /\ letters # <<>>
     /\ \A i \in 1..Len(letters) : IsAlpha(letters[i])
     /\ Len(name) >= MinNameLen

\* ---------------------------------------------------------- AttendanceDB
\* The three tables are sets of rows.  users: <<username, password>>,
\* students: <<student_id, name>>, attendance: <<student_id, date, present>>.
\* An INSERT that breaks a PRIMARY KEY raises sqlite3.IntegrityError.
\* As add_user, with INSERT OR REPLACE.
AttendanceDB_add_user_replace(us, username, password) ==
  [users |-> {row \in us : row[1] # username} \cup {<<username, password>>},
   raised |-> FALSE]

AttendanceDB_add_user(us, username, password) ==
  IF \E row \in us : row[1] = username
  THEN [users |-> us, raised |-> TRUE]
  ELSE [users |-> us \cup {<<username, password>>}, raised |-> FALSE]

AttendanceDB_authenticate(us, username, password) ==
  \E row \in us : row[1] = username /\ row[2] = password

AttendanceDB_add_student(ds, student_id, name) ==
  IF \E row \in ds : row[1] = student_id
  THEN [students |-> ds, raised |-> TRUE]
  ELSE [students |-> ds \cup {<<student_id, name>>}, raised |-> FALSE]

\* int(present)
BoolToInt(b) == IF b THEN 1 ELSE 0

\* As mark_attendance, with a plain INSERT.
AttendanceDB_mark_attendance_insert(ds, att, fk, student_id, date, present) ==
  IF \/ fk /\ ~(\E row \in ds : row[1] = student_id)
     \/ \E row \in att : row[1] = student_id /\ row[2] = date
  THEN [attendance |-> att, raised |-> TRUE]
  ELSE [attendance |-> att \cup {<<student_id, date, BoolToInt(present)>>},
        raised |-> FALSE]

\* INSERT OR REPLACE: a row with the same (student_id, date) is deleted
\* before the new row is inserted.  The FOREIGN KEY clause is enforced only
\* on a connection whose foreign_keys pragma is on; the code never sets it,
\* so the SQLite build's default decides (fk).
AttendanceDB_mark_attendance(ds, att, fk, student_id, date, present) ==
  IF fk /\ ~(\E row \in ds : row[1] = student_id)
  THEN [attendance |-> att, raised |-> TRUE]
  ELSE [attendance |->
          {row \in att : ~(row[1] = student_id /\ row[2] = date)}
            \cup {<<student_id, date, BoolToInt(present)>>},
        raised |-> FALSE]

\* ----------------------------------------------------------------- state
VARIABLES
  backend,        \* which mode the session runs: "memory" or "relational"
  students,       \* AttendanceManager.students: dict student_id -> Student
  file,           \* the text of the CSV file, or NoFile
  saved,          \* the roster the file was written from by save_to_csv, or NoRoster
  users,          \* table users
  db_students,    \* table students
  attendance,     \* table attendance
  foreign_keys,   \* whether the SQLite build enforces foreign keys by default
  first_password, \* history: <<username, password>> of each username's first add_user
  pc,             \* main(): the prompt the loop is blocked at, or how it ended
  buf,            \* main(): the answer to the first prompt of a two-prompt choice
  lastOp,         \* the last call: its name, arguments and returned value
  calls,          \* the number of calls made so far
  limit           \* the number of calls the session is followed for

manager_vars == <<students, file, saved>>
db_vars == <<users, db_students, attendance, foreign_keys, first_password>>
main_vars == <<pc, buf>>
vars == <<backend, students, file, saved, users, db_students, attendance,
          foreign_keys, first_password, pc, buf, lastOp, calls, limit>>

NoFile == <<"<no file>">>
NoRoster == <<"<no roster>">>

Call(op, args, ret) == [op |-> op, args |-> args, ret |-> ret]

\* What was stored for (student_id, date) before a mark: <<value>> or <<>>.
PriorValue(ss, student_id, date) ==
  IF DictHas(ss, student_id) /\ DictHas(DictGet(ss, student_id).attendance, date)
  THEN <<DictGet(DictGet(ss, student_id).attendance, date)>>
  ELSE <<>>

PriorRow(att, student_id, date) ==
  IF \E row \in att : row[1] = student_id /\ row[2] = date
  THEN <<(CHOOSE row \in att : row[1] = student_id /\ row[2] = date)[3]>>
  ELSE <<>>

InitCommon ==
  /\ calls = 0
  /\ students = <<>>
  /\ saved = NoRoster
  /\ users = {}
  /\ db_students = {}
  /\ attendance = {}
  /\ first_password = {}
  /\ pc = "not started"
  /\ buf = <<>>
  /\ lastOp = Call("__init__", <<>>, FALSE)

\* Every call counts towards the length of the session.
Tick == calls < limit /\ calls' = calls + 1

ManagerFrame == backend = "memory" /\ UNCHANGED <<backend, limit, db_vars, main_vars>>
DbFrame == backend = "relational" /\ UNCHANGED <<backend, limit, manager_vars, main_vars>>
MainFrame == UNCHANGED <<backend, limit, db_vars>>

\* ------------------------------------------- AttendanceManager, called directly
\* test_manager = AttendanceManager(): a fresh, empty manager.
NewManager ==
  /\ Tick
  /\ ManagerFrame
  /\ students' = <<>>
  /\ lastOp' = Call("__init__", <<>>, FALSE)
  /\ UNCHANGED <<file, saved>>

AddStudent ==
  /\ Tick
  /\ ManagerFrame
  /\ \E student_id \in StudentIdPool, name \in NamePool :
    LET r == AttendanceManager_add_student(students, student_id, name)
    IN /\ students' = r.students
       /\ lastOp' = Call("add_student", <<student_id, name>>, r.ret)
       /\ UNCHANGED <<file, saved>>

\* date=None stands for datetime.today(); the clock's date is an input, read
\* only then.
MarkAttendance ==
  /\ Tick
  /\ ManagerFrame
  /\ \E student_id \in StudentIdPool, present \in BOOLEAN,
        date \in DatePool \cup {None} :
       \E today \in IF date = None THEN DatePool ELSE {date} :
    LET r == AttendanceManager_mark_attendance(students, student_id, present,
                                               date, today)
    IN /\ students' = r.students
       /\ lastOp' = Call("mark_attendance",
                         <<student_id, present, IF date = None THEN today ELSE date,
                           PriorValue(students, student_id,
                                      IF date = None THEN today ELSE date)>>,
                         r.ret)
       /\ UNCHANGED <<file, saved>>

GetAttendancePercentage ==
  /\ Tick
  /\ ManagerFrame
  /\ \E i \in 1..Len(students) :
    /\ lastOp' = Call("get_attendance_percentage", <<students[i][1]>>,
                      Student_get_attendance_percentage(students[i][2]))
    /\ UNCHANGED <<students, file, saved>>

SummaryReport ==
  /\ Tick
  /\ ManagerFrame
  /\ lastOp' = Call("summary_report", <<>>, enhanced_summary(students))
  /\ UNCHANGED <<students, file, saved>>

\* open(filename, 'w') either succeeds and the rows are written, or raises
\* and the exception is reported.
SaveToCsv ==
  /\ Tick
  /\ ManagerFrame
  /\ \E io_ok \in BOOLEAN :
    /\ file' = IF io_ok THEN save_to_csv(students) ELSE file
    /\ saved' = IF io_ok THEN students ELSE saved
    /\ lastOp' = Call("save_to_csv", <<>>, io_ok)
    /\ UNCHANGED students

LoadFromCsv ==
  /\ Tick
  /\ ManagerFrame
  /\ students' = IF file = NoFile THEN students ELSE load_from_csv(students, file)
  /\ lastOp' = Call("load_from_csv", <<>>, file # NoFile)
  /\ UNCHANGED <<file, saved>>

\* Files written by something other than save_to_csv: lines of a hand-edited
\* or damaged CSV file, each ended by "\n".
ExternalLines ==
  { CsvJoin(<<Id1001, NameAnn, DateStr(1), TrueStr>>, FALSE),
    CsvJoin(<<Id1001, NameBob, DateStr(1), <<"t", "r", "u", "e">>>>, FALSE),
    CsvJoin(<<Id1001, NameAnn, DateStr(2)>>, FALSE),
    CsvJoin(<<Id1001, NameBob, DateStr(2), TrueStr, <<"x">>>>, FALSE),
    <<>>,
    Id1001 \o <<COMMA, QUOTE>> \o NameAnn }

RECURSIVE ExternalFiles(_)
ExternalFiles(n) ==
  IF n = 0 THEN {<<>>}
  ELSE LET shorter == ExternalFiles(n - 1)
       IN shorter \cup {l \o <<LF>> \o f : l \in ExternalLines, f \in shorter}

\* ------------------------------------------------ AttendanceDB and its callers
\* setup_admin_account: the three answers are stripped; add_user is called
\* when the password and its confirmation agree.
SetupAdminAccount ==
  /\ Tick
  /\ DbFrame
  /\ \E u \in UsernameInputs, p \in PasswordInputs, c \in PasswordInputs :
    LET username == Strip(u)
        password == Strip(p)
        confirm == Strip(c)
        r == AttendanceDB_add_user(users, username, password)
    IN IF password # confirm
       THEN /\ lastOp' = Call("setup_admin_account", <<username, password>>, FALSE)
            /\ UNCHANGED db_vars
       ELSE /\ users' = r.users
            /\ first_password' =
                 IF \E row \in first_password : row[1] = username
                 THEN first_password
                 ELSE first_password \cup {<<username, password>>}
            /\ lastOp' = Call("add_user", <<username, password>>, ~r.raised)
            /\ UNCHANGED <<db_students, attendance, foreign_keys>>

\* login: authenticate with the stripped answers.
Login ==
  /\ Tick
  /\ DbFrame
  /\ \E u \in UsernameInputs, p \in PasswordInputs :
    /\ lastOp' = Call("authenticate", <<Strip(u), Strip(p)>>,
                      AttendanceDB_authenticate(users, Strip(u), Strip(p)))
    /\ UNCHANGED db_vars

\* db_menu, choice 1.
DbMenuAddStudent ==
  /\ Tick
  /\ DbFrame
  /\ \E i \in DbIdInputs, n \in DbNameInputs :
    LET student_id == Strip(i)
        name == Strip(n)
        r == AttendanceDB_add_student(db_students, student_id, name)
    IN IF is_valid_id(student_id) /\ is_valid_name(name)
       THEN /\ db_students' = r.students
            /\ lastOp' = Call("db.add_student", <<student_id, name>>, ~r.raised)
            /\ UNCHANGED <<users, attendance, foreign_keys, first_password>>
       ELSE /\ lastOp' = Call("db_menu invalid", <<student_id, name>>, FALSE)
            /\ UNCHANGED db_vars

\* db_menu, choice 3: an empty date answer stands for today; any status but
\* "n" (lower-cased, not stripped) means present.
DbMenuMarkAttendance ==
  /\ Tick
  /\ DbFrame
  /\ \E i \in DbIdInputs, d \in DatePool \cup {<<>>}, status \in StatusInputs :
     \E today \in IF d = <<>> THEN DatePool ELSE {d} :
    LET student_id == Strip(i)
        date == IF Strip(d) = <<>> THEN today ELSE Strip(d)
        present == (Lower(status) # <<"n">>)
        r == AttendanceDB_mark_attendance(db_students, attendance, foreign_keys,
                                          student_id, date, present)
    IN /\ attendance' = r.attendance
       /\ lastOp' = Call("db.mark_attendance",
                         <<student_id, present, date,
                           PriorRow(attendance, student_id, date)>>,
                         ~r.raised)
       /\ UNCHANGED <<users, db_students, foreign_keys, first_password>>

\* --------------------------------------------------------- specifications
\* Either backend, driven through its methods.
Init ==
  /\ InitCommon
  /\ \/ backend = "memory" /\ limit = MaxCalls
     \/ backend = "relational" /\ limit = MaxDbCalls
  /\ file = NoFile
  /\ foreign_keys \in BOOLEAN

Next ==
  \/ NewManager
  \/ AddStudent
  \/ MarkAttendance
  \/ GetAttendancePercentage
  \/ SummaryReport
  \/ SetupAdminAccount
  \/ Login
  \/ DbMenuAddStudent
  \/ DbMenuMarkAttendance

Spec == Init /\ [][Next]_vars

\* The manager with its CSV file.
InitCsv ==
  /\ InitCommon
  /\ backend = "memory"
  /\ limit = MaxCalls
  /\ file = NoFile
  /\ foreign_keys = FALSE

CsvNext ==
  \/ NewManager
  \/ AddStudent
  \/ MarkAttendance
  \/ SaveToCsv
  \/ LoadFromCsv

SpecCsv == InitCsv /\ [][CsvNext]_vars

\* The manager loading a file it did not write.
InitLoad ==
  /\ InitCommon
  /\ backend = "memory"
  /\ limit = MaxLoadCalls
  /\ file \in ExternalFiles(MaxRows)
  /\ foreign_keys = FALSE

LoadNext ==
  \/ AddStudent
  \/ MarkAttendance
  \/ LoadFromCsv

SpecLoad == InitLoad /\ [][LoadNext]_vars

\* ------------------------------------------------------------------ main()
\* What arrives at a blocked input(): a line of text, or the user's interrupt.
Interrupt == <<"<KeyboardInterrupt>">>

\* get_input: the text, or "9" when input() raises KeyboardInterrupt.
get_input(event) == IF event = Interrupt THEN <<"9">> ELSE event

\* A bare input(): KeyboardInterrupt is not caught here nor anywhere in main.
input_raises(event) == event = Interrupt

\* int(text): surrounding whitespace and a leading "-" are accepted.
RECURSIVE DigitsValue(_)
DigitsValue(ds) ==
  IF ds = <<>> THEN 0
  ELSE 10 * DigitsValue(SubSeq(ds, 1, Len(ds) - 1))
       + (CHOOSE v \in 0..9 : Digits[v + 1] = ds[Len(ds)])

ParseInt(text) ==
  LET t == Strip(text)
      neg == t # <<>> /\ Head(t) = "-"
      ds == IF neg THEN Tail(t) ELSE t
  IN IF ds # <<>> /\ \A i \in 1..Len(ds) : ds[i] \in DigitChars
     THEN [ok |-> TRUE, value |-> IF neg THEN 0 - DigitsValue(ds) ELSE DigitsValue(ds)]
     ELSE [ok |-> FALSE, value |-> 0]

\* generate_fake_students: per student a random 4-digit id, a random name of
\* 5 capitals, add_student, then FakeDays marks for today with random presence.
RECURSIVE FakeMarks(_, _, _, _)
FakeMarks(ss, student_id, presents, today) ==
  IF presents = <<>> THEN ss
  ELSE FakeMarks(
         AttendanceManager_mark_attendance(ss, student_id, Head(presents),
                                           today, today).students,
         student_id, Tail(presents), today)

RECURSIVE generate_fake_students(_, _, _)
generate_fake_students(ss, draws, today) ==
  IF draws = <<>> THEN ss
  ELSE LET d == Head(draws)
           added == AttendanceManager_add_student(ss, d.student_id, d.name).students
       IN generate_fake_students(FakeMarks(added, d.student_id, d.presents, today),
                                 Tail(draws), today)

FakeDraws ==
  [student_id : FakeIdPool, name : FakeNamePool, presents : [1..FakeDays -> BOOLEAN]]

MainAnswer(prompt, event, next) ==
  /\ pc' = next
  /\ lastOp' = Call(IF event = Interrupt THEN "KeyboardInterrupt" ELSE "input",
                    <<prompt>>, FALSE)

\* An interrupt at a bare input() leaves main through the exception.
MainRaise(prompt) ==
  /\ pc' = "KeyboardInterrupt"
  /\ lastOp' = Call("KeyboardInterrupt", <<prompt>>, FALSE)
  /\ UNCHANGED <<manager_vars, buf>>

\* The loop's first prompt and the dispatch on the choice.
MainChoice ==
  /\ Tick
  /\ MainFrame
  /\ pc = "choice"
  /\ \E event \in ChoiceInputs \cup {Interrupt} :
       LET choice == get_input(event)
       IN /\ MainAnswer("choice", event,
               CASE choice = <<"1">> -> "add_id"
                 [] choice = <<"3">> -> "mark_id"
                 [] choice = <<"5">> -> "save_filename"
                 [] choice = <<"6">> -> "load_filename"
                 [] choice = <<"7">> -> "view_id"
                 [] choice = <<"8">> -> "fake_count"
                 [] choice = <<"9">> -> "exited"
                 [] OTHER -> "choice")
          /\ UNCHANGED <<manager_vars, buf>>

MainAddId ==
  /\ Tick
  /\ MainFrame
  /\ pc = "add_id"
  /\ \E event \in MainIdInputs \cup {Interrupt} :
       IF input_raises(event) THEN MainRaise("add_id")
       ELSE /\ MainAnswer("add_id", event, "add_name")
            /\ buf' = Strip(event)
            /\ UNCHANGED manager_vars

MainAddName ==
  /\ Tick
  /\ MainFrame
  /\ pc = "add_name"
  /\ \E event \in MainNameInputs \cup {Interrupt} :
       IF input_raises(event) THEN MainRaise("add_name")
       ELSE LET name == Strip(event)
            IN /\ MainAnswer("add_name", event, "choice")
               /\ students' =
                    IF buf # <<>> /\ name # <<>>
                    THEN AttendanceManager_add_student(students, buf, name).students
                    ELSE students
               /\ buf' = <<>>
               /\ UNCHANGED <<file, saved>>

MainMarkId ==
  /\ Tick
  /\ MainFrame
  /\ pc = "mark_id"
  /\ \E event \in MainIdInputs \cup {Interrupt} :
       IF input_raises(event) THEN MainRaise("mark_id")
       ELSE /\ MainAnswer("mark_id", event, "mark_status")
            /\ buf' = Strip(event)
            /\ UNCHANGED manager_vars

MainMarkStatus ==
  /\ Tick
  /\ MainFrame
  /\ pc = "mark_status"
  /\ \E event \in StatusInputs \cup {Interrupt}, today \in DatePool :
       IF input_raises(event) THEN MainRaise("mark_status")
       ELSE LET present == (Lower(Strip(event)) # <<"n">>)
            IN /\ MainAnswer("mark_status", event, "choice")
               /\ students' =
                    AttendanceManager_mark_attendance(students, buf, present,
                                                      None, today).students
               /\ buf' = <<>>
               /\ UNCHANGED <<file, saved>>

\* Every answer here names the one file of the model (an empty answer is the
\* default name).
MainSave ==
  /\ Tick
  /\ MainFrame
  /\ pc = "save_filename"
  /\ \E event \in FilenameInputs \cup {Interrupt}, io_ok \in BOOLEAN :
       IF input_raises(event) THEN MainRaise("save_filename")
       ELSE /\ MainAnswer("save_filename", event, "choice")
            /\ file' = IF io_ok THEN save_to_csv(students) ELSE file
            /\ saved' = IF io_ok THEN students ELSE saved
            /\ UNCHANGED <<students, buf>>

MainLoad ==
  /\ Tick
  /\ MainFrame
  /\ pc = "load_filename"
  /\ \E event \in FilenameInputs \cup {Interrupt} :
       IF input_raises(event) THEN MainRaise("load_filename")
       ELSE /\ MainAnswer("load_filename", event, "choice")
            /\ students' =
                 IF file = NoFile THEN students ELSE load_from_csv(students, file)
            /\ UNCHANGED <<file, saved, buf>>

\* view_student_attendance: prints, changes nothing.
MainView ==
  /\ Tick
  /\ MainFrame
  /\ pc = "view_id"
  /\ \E event \in MainIdInputs \cup {Interrupt} :
       IF input_raises(event) THEN MainRaise("view_id")
       ELSE /\ MainAnswer("view_id", event, "choice")
            /\ UNCHANGED <<manager_vars, buf>>

MainFake ==
  /\ Tick
  /\ MainFrame
  /\ pc = "fake_count"
  /\ \E event \in CountInputs \cup {Interrupt}, today \in DatePool :
       IF input_raises(event) THEN MainRaise("fake_count")
       ELSE LET num == ParseInt(event)
                count == IF num.ok /\ num.value > 0 THEN num.value ELSE 0
            IN \E draws \in [1..count -> FakeDraws] :
                 /\ MainAnswer("fake_count", event, "choice")
                 /\ students' = generate_fake_students(students, draws, today)
                 /\ UNCHANGED <<file, saved, buf>>

InitMain ==
  /\ InitCommon
  /\ backend = "memory"
  /\ limit = MaxMainCalls
  /\ file = NoFile
  /\ foreign_keys = FALSE

\* main(): manager = AttendanceManager(), then the loop.
MainStart ==
  /\ Tick
  /\ MainFrame
  /\ pc = "not started"
  /\ pc' = "choice"
  /\ lastOp' = Call("main", <<>>, FALSE)
  /\ UNCHANGED <<manager_vars, buf>>

MainNext ==
  \/ MainStart
  \/ MainChoice
  \/ MainAddId
  \/ MainAddName
  \/ MainMarkId
  \/ MainMarkStatus
  \/ MainSave
  \/ MainLoad
  \/ MainView
  \/ MainFake

SpecMain == InitMain /\ [][MainNext]_vars


\* ---------------------------------------------------------------- claims
\* The (student_id, name, date, present) tuples of a roster.
RosterTuples(ss) ==
  UNION {{<<ss[i][1], ss[i][2].name, ss[i][2].attendance[j][1],
            ss[i][2].attendance[j][2]>> : j \in 1..Len(ss[i][2].attendance)} :
         i \in 1..Len(ss)}

\* The dates recorded for a student and those among them marked present.
RecordedDates(st) == DictKeys(st.attendance)
PresentDates(st) ==
  {d \in RecordedDates(st) :
     \E j \in 1..Len(st.attendance) : st.attendance[j] = <<d, TRUE>>}

\* A load into an empty manager of a file that save_to_csv wrote.
RoundTripStep ==
  /\ lastOp'.op = "load_from_csv"
  /\ lastOp'.ret
  /\ students = <<>>
  /\ saved # NoRoster

\* C1: saving a roster and loading the file into a fresh empty manager gives
\* a roster with the same set of (student_id, name, date, present) tuples.
C1_RoundTrip ==
  [][RoundTripStep => RosterTuples(students') = RosterTuples(saved)]_vars

\* A step of the in-memory manager: a successful mark stores its value once,
\* adds no date when the date was recorded, and other calls keep what is stored.
C2_MemoryStep ==
  /\ lastOp'.op = "mark_attendance" /\ DictHas(students, lastOp'.args[1])
       => LET student_id == lastOp'.args[1]
              present == lastOp'.args[2]
              date == lastOp'.args[3]
              before == DictGet(students, student_id).attendance
              after == DictGet(students', student_id).attendance
          IN /\ Cardinality({j \in 1..Len(after) : after[j][1] = date}) = 1
             /\ DictGet(after, date) = present
             /\ DictHas(before, date) => Len(after) = Len(before)
  /\ lastOp'.op \in {"add_student", "get_attendance_percentage", "summary_report"}
       => SubSeq(students', 1, Len(students)) = students

\* The same for a step of the relational adapter.
C2_RelationalStep ==
  /\ lastOp'.op = "db.mark_attendance"
       /\ (\E row \in db_students : row[1] = lastOp'.args[1])
       => LET student_id == lastOp'.args[1]
              present == lastOp'.args[2]
              date == lastOp'.args[3]
              Of(att) == {row \in att : row[1] = student_id}
          IN /\ {row \in attendance' : row[1] = student_id /\ row[2] = date}
                  = {<<student_id, date, IF present THEN 1 ELSE 0>>}
             /\ (\E row \in attendance : row[1] = student_id /\ row[2] = date)
                  => Cardinality(Of(attendance')) = Cardinality(Of(attendance))
  /\ lastOp'.op \in {"db.add_student", "db_menu invalid", "add_user",
                     "setup_admin_account", "authenticate"}
       => attendance' = attendance

\* C2: in both backends a mark_attendance call for an existing student leaves
\* exactly one stored value for (student_id, date), the value of that call; a
\* repeated call for a date already recorded does not add a date; and no
\* other call changes a stored value.
C2_LastWriteWins == [][C2_MemoryStep /\ C2_RelationalStep]_vars

\* A repeated relational mark has replaced the stored value by the other one.
C2_Witness ==
  /\ lastOp.op = "db.mark_attendance"
  /\ lastOp.ret
  /\ lastOp.args[4] = <<1>>
  /\ ~lastOp.args[2]
  /\ <<lastOp.args[1], lastOp.args[3], 0>> \in attendance
  /\ \E row \in db_students : row[1] = lastOp.args[1]

\* The same in the in-memory manager.
C2_WitnessMemory ==
  /\ lastOp.op = "mark_attendance"
  /\ lastOp.ret
  /\ lastOp.args[4] = <<TRUE>>
  /\ ~lastOp.args[2]

\* C3: get_attendance_percentage returns P/N*100 for N > 0 recorded dates of
\* which P are present, and 0 for N = 0; the summary row of each student
\* reports P, N and that percentage to two decimals.
C3_AttendancePercentage ==
  /\ lastOp.op = "get_attendance_percentage" =>
       LET st == DictGet(students, lastOp.args[1])
           N == Cardinality(RecordedDates(st))
           P == Cardinality(PresentDates(st))
       IN IF N > 0
          THEN lastOp.ret.num * N = P * 100 * lastOp.ret.den
          ELSE lastOp.ret.num = 0
  /\ lastOp.op = "summary_report" =>
       /\ Len(lastOp.ret) = Len(students)
       /\ \A i \in 1..Len(students) :
            LET st == students[i][2]
                row == lastOp.ret[i]
                N == Cardinality(RecordedDates(st))
                P == Cardinality(PresentDates(st))
            IN /\ row.student_id = students[i][1]
               /\ row.name = st.name
               /\ row.total_days = N
               /\ row.present_days = P
               /\ row.percentage =
                    Format2fPercent(IF N > 0 THEN [num |-> P * 100, den |-> N]
                                    ELSE [num |-> 0, den |-> 1])
               /\ row.percentage =
                    Format2fPercent(Student_get_attendance_percentage(st))

\* The summary shows a student present on one of two dates, at "50.00%", and
\* a student with no date, at "0.00%".
C3_Witness ==
  /\ lastOp.op = "summary_report"
  /\ \E i \in 1..Len(lastOp.ret) :
       /\ lastOp.ret[i].total_days = 2
       /\ lastOp.ret[i].present_days = 1
       /\ lastOp.ret[i].percentage = <<"5", "0", ".", "0", "0", "%">>
  /\ \E i \in 1..Len(lastOp.ret) :
       /\ lastOp.ret[i].total_days = 0
       /\ lastOp.ret[i].percentage = <<"0", ".", "0", "0", "%">>

\* C4: add_student with an id already in the roster returns False and leaves
\* the roster as it was.
C4_DuplicateAdd ==
  [][lastOp'.op = "add_student" /\ DictHas(students, lastOp'.args[1])
       => ~lastOp'.ret /\ students' = students]_vars

\* A refused add_student with another name, for a student with attendance.
C4_Witness ==
  /\ lastOp.op = "add_student"
  /\ ~lastOp.ret
  /\ DictGet(students, lastOp.args[1]).name # lastOp.args[2]
  /\ DictGet(students, lastOp.args[1]).attendance # <<>>

\* C5: mark_attendance with an id that is not in the roster returns False and
\* leaves the roster as it was.
C5_NotFound ==
  [][lastOp'.op = "mark_attendance" /\ ~DictHas(students, lastOp'.args[1])
       => ~lastOp'.ret /\ students' = students]_vars

\* A refused mark_attendance in a roster that holds another student.
C5_Witness ==
  /\ lastOp.op = "mark_attendance"
  /\ ~lastOp.ret
  /\ students # <<>>
  /\ ~DictHas(students, lastOp.args[1])

\* C6: every attendance row names a student of the students table, and a
\* mark_attendance for an unknown student id is aborted.
C6_ReferentialIntegrity ==
  /\ \A row \in attendance : \E st \in db_students : st[1] = row[1]
  /\ lastOp.op = "db.mark_attendance"
       /\ ~(\E st \in db_students : st[1] = lastOp.args[1])
       => ~lastOp.ret

\* C7: the users table holds for each username the password of its first
\* add_user; authenticate returns true exactly for a stored pair and changes
\* nothing; add_user for a stored username is reported and changes nothing.
C7_Authentication ==
  [][/\ users' = first_password'
     /\ lastOp'.op = "authenticate"
          => /\ users' = users
             /\ lastOp'.ret = (<<lastOp'.args[1], lastOp'.args[2]>> \in first_password)
     /\ lastOp'.op = "add_user" /\ (\E row \in users : row[1] = lastOp'.args[1])
          => ~lastOp'.ret /\ users' = users]_vars

\* authenticate has refused a stored username given with another password.
C7_Witness ==
  /\ lastOp.op = "authenticate"
  /\ ~lastOp.ret
  /\ \E row \in users : row[1] = lastOp.args[1] /\ row[2] # lastOp.args[2]

\* The rows of the reader with exactly four fields.
WellFormedRows(rows) == SelectSeq(rows, LAMBDA row : Len(row) = 4)

\* C8: a row without exactly four fields changes nothing and the rows before
\* and after it are applied: the roster after load_from_csv is the one the
\* file gives with those rows removed.
C8_MalformedRows ==
  [][lastOp'.op = "load_from_csv" /\ lastOp'.ret
       => students' =
            LoadRows(students, WellFormedRows(CsvReader(TextModeRead(file)).rows))]_vars

\* A file with a malformed row between two well-formed rows was loaded, and
\* both well-formed rows were applied: the student has the first row's name
\* and the third row's presence value.
C8_Witness ==
  /\ lastOp.op = "load_from_csv"
  /\ lastOp.ret
  /\ LET rows == CsvReader(TextModeRead(file)).rows
     IN /\ Len(rows) = 3
        /\ Len(rows[1]) = 4
        /\ Len(rows[2]) # 4
        /\ Len(rows[3]) = 4
        /\ rows[1][4] = TrueStr
        /\ rows[3][4] # TrueStr
        /\ rows[1][2] # rows[3][2]
        /\ Len(students) = 1
        /\ students[1][2].name = rows[1][2]
        /\ students[1][2].attendance = <<<<rows[3][3], FALSE>>>>

\* C9: an interrupt at any prompt of main() ends the loop through the exit
\* branch.
C9_InterruptMeansExit == lastOp.op = "KeyboardInterrupt" => pc = "exited"

\* C10: after save_to_csv and load_from_csv into a fresh empty manager, the
\* student ids of the loaded roster are the ids of the saved students that
\* had at least one recorded date.
C10_StudentsWithoutAttendance ==
  [][RoundTripStep =>
       DictKeys(students') =
         {saved[i][1] : i \in {k \in 1..Len(saved) : saved[k][2].attendance # <<>>}}]_vars

====
